---- MODULE Spec2Model ----
(***************************************************************************)
(* A model of deptree's Cypher-like front end (src/cypher.rs) and of the   *)
(* kuzu export command that drives it (src/main.rs).                       *)
(*                                                                         *)
(* Rust strings are sequences of character codes, compared as Rust         *)
(* compares String (lexicographically, code by code).  A HashMap is a      *)
(* function; the order in which a HashMap or HashSet hands out its entries *)
(* is not determined by the program, so every iteration draws one of the   *)
(* possible orders.  Text produced by format!/write! is a sequence of      *)
(* pieces, each a literal or a rendered value.                             *)
(***************************************************************************)
EXTENDS Integers, Sequences, FiniteSets, TLC

VARIABLES
    pc,       \* position of the running function
    schema,   \* Schema.tables: table name -> Table
    cur,      \* the triple the loop of extract_schema is at
    occ,      \* history: per (table, key), what the merged occurrences were
    out,      \* the first call made on the returned value, and its result
    input,    \* parse: the patterns of the input walked so far
    triples,  \* parse: the Vec<Triple> built so far
    stdin,    \* run: the text read from standard input
    conn,     \* run: the statements sent on the connection, in order
    files,    \* run: the csv files written, in order, with their rows
    nodes,    \* run: label -> HashSet<Node>
    edges,    \* run: label -> HashSet<Edge>
    iter,     \* run: what the running for loop has still to visit
    prev,     \* run: what an earlier run on the same input sent and wrote
    arena,    \* lib: the Arena
    hist      \* lib: the calls of Arena::insert made so far, with what they returned

vars == <<pc, schema, cur, occ, out, input, triples,
          stdin, conn, files, nodes, edges, iter, prev, arena, hist>>

parseVars == <<input, triples>>
foldVars  == <<schema, cur, occ>>
runVars   == <<stdin, conn, files, nodes, edges, iter, prev>>
arenaVars == <<arena, hist>>

\* Arena::new
Arena_new == [nodes |-> <<>>, inverted_index |-> <<>>]

\* No Arena is in use.
ArenaIdle ==
    /\ arena = Arena_new
    /\ hist = <<>>

NoRun == [ran |-> FALSE]

\* The variables of KuzuCommand::run while it is not running.
RunIdle ==
    /\ stdin = [grammatical |-> TRUE, patterns |-> <<>>]
    /\ conn = <<>>
    /\ files = <<>>
    /\ nodes = <<>>
    /\ edges = <<>>
    /\ iter = <<>>
    /\ prev = NoRun

----------------------------------------------------------------------------
(* Strings *)

\* Ord for String: lexicographic on the character codes, a proper prefix first.
StrLess(a, b) ==
    \E i \in 1..Len(b) :
        /\ i <= Len(a) + 1
        /\ \A j \in 1..(i - 1) : a[j] = b[j]
        /\ (i = Len(a) + 1 \/ a[i] < b[i])

\* The labels and property keys the inputs are drawn from.
LabelA == <<65>>            \* "A"
LabelB == <<66>>            \* "B"
LabelR == <<82>>            \* "R"
KeyId  == <<105, 100>>      \* "id"
KeyX   == <<120>>           \* "x"
KeyA   == <<97>>            \* "a"
TextS  == <<115>>           \* "s"
Text150 == <<49, 46, 53, 48>>   \* "1.50"

----------------------------------------------------------------------------
(* Value, Option<Value>, Properties *)

ValueInteger(n) == [tag |-> "Integer", val |-> n]
ValueDouble(s)  == [tag |-> "Double", val |-> s]
ValueString(s)  == [tag |-> "String", val |-> s]
ValueBool(b)    == [tag |-> "Bool", val |-> b]

None    == [some |-> FALSE]
Some(v) == [some |-> TRUE, value |-> v]

\* The variant of an occurrence: the Value variant, or "None" for a null.
VariantOf(o) == IF o.some THEN o.value.tag ELSE "None"

\* The orders in which a HashMap or HashSet holding S may hand out its entries.
HashOrders(S) ==
    {s \in [1..Cardinality(S) -> S] : \A i, j \in 1..Cardinality(S) : i # j => s[i] # s[j]}

\* itertools' sorted_by_key over the entries `s`, where less[i][j] says that the
\* key of s[i] is less than the key of s[j]: a stable sort, so entries whose
\* keys compare equal keep the order they arrived in.
SortedByKey(s, less) ==
    LET n == Len(s)
        before(j, i) == \/ less[j][i]
                        \/ (~less[i][j] /\ j < i)
        place(i) == 1 + Cardinality({j \in 1..n : before(j, i)})
    IN  [p \in 1..n |-> s[CHOOSE i \in 1..n : place(i) = p]]

\* The closure |(k, _)| k: the entries compare by their String key.
ByString(s) == [i \in 1..Len(s) |-> [j \in 1..Len(s) |-> StrLess(s[i], s[j])]]

\* Properties: the HashMap `inner`, and the order in which this HashMap hands out
\* its keys (fixed by the hasher when the map is built, unknown to the program).
Properties_new(inner, order) == [inner |-> inner, order |-> order]

\* Properties::iter: the keys of the map, sorted.
Properties_iter(properties) == SortedByKey(properties.order, ByString(properties.order))

\* Properties::get
Properties_get(properties, key) ==
    IF key \in DOMAIN properties.inner THEN Some(properties.inner[key]) ELSE None

----------------------------------------------------------------------------
(* Node, Edge, Triple *)

\* Node::new panics when "id" is missing (the first unwrap) or null (the second).
Node_new_panics(properties) ==
    \/ ~Properties_get(properties, KeyId).some
    \/ ~Properties_get(properties, KeyId).value.some

\* Node::new, when it does not panic.
Node_new(name, properties) ==
    [name |-> name, properties |-> properties,
     primary_value |-> Properties_get(properties, KeyId).value.value]

\* Edge::new
Edge_new(name, from, to) ==
    [name |-> name, properties |-> None, from |-> from, to |-> to]

\* Edge::set_properties; `properties` is the Properties built over the HashMap.
Edge_set_properties(edge, properties) ==
    [edge EXCEPT !.properties = Some(properties)]

----------------------------------------------------------------------------
(* Field, TableType, Table, Schema *)

TableType_Node       == [kind |-> "Node"]
TableType_Edge(f, t) == [kind |-> "Edge", from |-> f, to |-> t]

\* A variant of the order on TableType that puts every Edge before Node.
TableTypeLess_edges_first(a, b) ==
    IF a.kind = "Edge"
    THEN \/ b.kind = "Node"
         \/ StrLess(a.from, b.from)
         \/ (a.from = b.from /\ StrLess(a.to, b.to))
    ELSE FALSE

\* derive(Ord) on TableType: Node before every Edge, two Edges by (from, to).
TableTypeLess(a, b) ==
    IF a.kind = "Node" THEN b.kind = "Edge"
    ELSE /\ b.kind = "Edge"
         /\ \/ StrLess(a.from, b.from)
            \/ (a.from = b.from /\ StrLess(a.to, b.to))

\* Display for FieldType.
FieldType_Display(type) ==
    CASE type = "Integer" -> "INT64"
      [] type = "Double"  -> "DOUBLE"
      [] type = "Boolean" -> "BOOLEAN"
      [] type = "String"  -> "STRING"

\* A variant of add_field that inserts over an existing entry (HashMap::insert).
Table_add_field_overwrite(table, name, type, nullable) ==
    [table EXCEPT !.fields =
        (name :> [name |-> name, type |-> type, nullable |-> nullable]) @@ @]

Table_add_field(table, name, type, nullable) ==
    IF name \in DOMAIN table.fields
    THEN table
    ELSE [table EXCEPT !.fields =
            @ @@ (name :> [name |-> name, type |-> type, nullable |-> nullable])]

\* A variant of set_field_nullable whose update is lost.
Table_set_field_nullable_lost(table, name, nullable) == table

Table_set_field_nullable(table, name, nullable) ==
    [table EXCEPT !.fields[name].nullable = @ \/ nullable]

\* A variant of the loop body that files a null as a plain String occurrence.
MergeEntry_null_as_string(table, k, v) ==
    IF v.some
    THEN CASE v.value.tag = "Integer" -> Table_add_field(table, k, "Integer", FALSE)
           [] v.value.tag = "Double"  -> Table_add_field(table, k, "Double", FALSE)
           [] v.value.tag = "String"  -> Table_add_field(table, k, "String", FALSE)
           [] v.value.tag = "Bool"    -> Table_add_field(table, k, "Boolean", FALSE)
    ELSE Table_add_field(table, k, "String", FALSE)

\* One iteration of the loop of merge_properties, for the entry (k, v).
MergeEntry(table, k, v) ==
    IF v.some
    THEN CASE v.value.tag = "Integer" -> Table_add_field(table, k, "Integer", FALSE)
           [] v.value.tag = "Double"  -> Table_add_field(table, k, "Double", FALSE)
           [] v.value.tag = "String"  -> Table_add_field(table, k, "String", FALSE)
           [] v.value.tag = "Bool"    -> Table_add_field(table, k, "Boolean", FALSE)
    ELSE Table_set_field_nullable(Table_add_field(table, k, "String", TRUE), k, TRUE)

RECURSIVE MergeLoop(_, _, _)
MergeLoop(table, properties, keys) ==
    IF keys = <<>> THEN table
    ELSE MergeLoop(MergeEntry(table, Head(keys), properties.inner[Head(keys)]),
                   properties, Tail(keys))

Table_merge_properties(table, properties) ==
    MergeLoop(table, properties, Properties_iter(properties))

\* A variant of the entry lookup that stores the given table over an existing one
\* (HashMap::insert).
EntryOrInsert_overwrite(tables, name, table) ==
    [k \in DOMAIN tables \cup {name} |-> IF k = name THEN table ELSE tables[k]]

\* HashMap::entry(name).or_insert(table)
EntryOrInsert(tables, name, table) ==
    IF name \in DOMAIN tables THEN tables ELSE tables @@ (name :> table)

\* A variant of extract_table_from_node that does not merge the node's properties.
extract_table_from_node_unmerged(tables, node) ==
    LET t1 == EntryOrInsert(tables, node.name,
                  [name |-> node.name, type |-> TableType_Node,
                   fields |-> <<>>, primary_key |-> KeyId])
    IN  [ok |-> t1[node.name].type = TableType_Node, tables |-> t1]

\* extract_table_from_node: ok = FALSE when the assertion fails (a panic).
extract_table_from_node(tables, node) ==
    LET t1 == EntryOrInsert(tables, node.name,
                  [name |-> node.name, type |-> TableType_Node,
                   fields |-> <<>>, primary_key |-> KeyId])
    IN  IF t1[node.name].type # TableType_Node
        THEN [ok |-> FALSE, tables |-> t1]
        ELSE [ok |-> TRUE,
              tables |-> [t1 EXCEPT ![node.name] =
                            Table_merge_properties(@, node.properties)]]

\* extract_schema_from_edge: ok = FALSE when the assertion fails (a panic).
extract_schema_from_edge(tables, edge) ==
    LET t1 == EntryOrInsert(tables, edge.name,
                  [name |-> edge.name,
                   type |-> TableType_Edge(edge.from[1], edge.to[1]),
                   fields |-> <<>>, primary_key |-> KeyId])
    IN  IF t1[edge.name].type.kind # "Edge"
        THEN [ok |-> FALSE, tables |-> t1]
        ELSE IF edge.properties.some
        THEN [ok |-> TRUE,
              tables |-> [t1 EXCEPT ![edge.name] =
                            Table_merge_properties(@, edge.properties.value)]]
        ELSE [ok |-> TRUE, tables |-> t1]

\* extract_schema: the Schema it starts from.
Schema_new == <<>>

----------------------------------------------------------------------------
(* Text: the pieces written by format! and write! *)

Lit(s) == [piece |-> "lit", text |-> s]
Str(s) == [piece |-> "str", text |-> s]

RECURSIVE Join(_, _)
Join(texts, sep) ==
    IF texts = <<>> THEN <<>>
    ELSE IF Len(texts) = 1 THEN Head(texts)
    ELSE Head(texts) \o <<sep>> \o Join(Tail(texts), sep)

\* Table::iter_fields: the fields, sorted by the key they are stored under.
Table_iter_fields(table, order) ==
    LET keys == SortedByKey(order, ByString(order))
    IN  [i \in 1..Len(keys) |-> table.fields[keys[i]]]

\* A variant of generate_fields that lists the fields as the HashMap hands them out.
Table_generate_fields_unsorted(table, order) ==
    LET keys == order
        entry(k) == <<Str(k), Lit(" "), Lit(FieldType_Display(table.fields[k].type))>>
        fields == Join([i \in 1..Len(keys) |-> entry(keys[i])], Lit(", "))
    IN  IF table.type.kind = "Node"
        THEN <<Lit("(")>> \o fields \o
             <<Lit(", PRIMARY KEY ("), Str(table.primary_key), Lit("))")>>
        ELSE <<Lit("(FROM "), Str(table.type.from), Lit(" TO "), Str(table.type.to),
               Lit(", ")>> \o fields \o <<Lit(")")>>

\* Table::generate_fields
Table_generate_fields(table, order) ==
    LET keys == SortedByKey(order, ByString(order))
        entry(k) == <<Str(k), Lit(" "), Lit(FieldType_Display(table.fields[k].type))>>
        fields == Join([i \in 1..Len(keys) |-> entry(keys[i])], Lit(", "))
    IN  IF table.type.kind = "Node"
        THEN <<Lit("(")>> \o fields \o
             <<Lit(", PRIMARY KEY ("), Str(table.primary_key), Lit("))")>>
        ELSE <<Lit("(FROM "), Str(table.type.from), Lit(" TO "), Str(table.type.to),
               Lit(", ")>> \o fields \o <<Lit(")")>>

\* Table::generate_create_statement
Table_generate_create_statement(table, order) ==
    LET ty == IF table.type.kind = "Node" THEN "NODE" ELSE "REL"
    IN  <<Lit("CREATE "), Lit(ty), Lit(" TABLE "), Str(table.name), Lit(" ")>>
        \o Table_generate_fields(table, order) \o <<Lit(";")>>

\* The closure |(_, v)| v.r#type.clone(): the tables compare by their TableType.
ByTableType(s) ==
    [i \in 1..Len(s) |-> [j \in 1..Len(s) |-> TableTypeLess(s[i].type, s[j].type)]]

\* Schema::iter_table: the tables sorted by their TableType alone; `order` is the
\* order in which the HashMap hands out its keys.
Schema_iter_table(tables, order) ==
    LET entries == [i \in 1..Len(order) |-> tables[order[i]]]
    IN  SortedByKey(entries, ByTableType(entries))

----------------------------------------------------------------------------
(* The inputs of extract_schema: triples as parse builds them *)

NodeLabels == {LabelA, LabelB}
EdgeLabels == {LabelR, LabelA}
IdValues   == {ValueInteger(1)}
XValues    == {ValueInteger(7), ValueDouble(Text150), ValueString(TextS), ValueBool(TRUE)}

Occurrences == {None} \cup {Some(v) : v \in XValues}

\* The property maps of a node pattern whose primary value is pv.  A node labelled
\* A has "id", and "x" (of any variant, or null) or not; a node labelled B has
\* "id", and a string "a" or not.
NodeMaps(label, pv) ==
    IF label = LabelA
    THEN {(KeyId :> Some(pv))} \cup
         {(KeyId :> Some(pv)) @@ (KeyX :> o) : o \in Occurrences}
    ELSE {(KeyId :> Some(pv)), (KeyId :> Some(pv)) @@ (KeyA :> Some(ValueString(TextS)))}

\* The property maps of an edge that has properties: never empty.
EdgeMaps == {(KeyA :> o) : o \in {None, Some(ValueInteger(7))}}

\* The edges parse_edge_pattern builds between two given endpoints.
EdgesBetween(name, from, to) ==
    {Edge_new(name, from, to)} \cup
    {Edge_set_properties(Edge_new(name, from, to), Properties_new(m, o)) :
        <<m, o>> \in UNION {{<<m, o>> : o \in HashOrders(DOMAIN m)} : m \in EdgeMaps}}

----------------------------------------------------------------------------
(* History of the fold, per (table, key): the variant of the first occurrence  *)
(* merged, the variant of the latest one, and whether any of them was a null.  *)

Observe(o, table, properties) ==
    LET new == {<<table, k>> : k \in DOMAIN properties.inner}
    IN  [p \in (DOMAIN o) \cup new |->
            IF p \in new
            THEN LET v == VariantOf(properties.inner[p[2]])
                 IN  IF p \in DOMAIN o
                     THEN [first |-> o[p].first, last |-> v,
                           null |-> o[p].null \/ (v = "None")]
                     ELSE [first |-> v, last |-> v, null |-> (v = "None")]
            ELSE o[p]]

----------------------------------------------------------------------------
(* extract_schema, call by call, and the calls made on the Schema it returns *)

NoCall == [call |-> "none"]

Init ==
    /\ pc = "loop"
    /\ schema = Schema_new
    /\ cur = [left |-> <<>>, edge |-> <<>>, right |-> <<>>]
    /\ occ = <<>>
    /\ out = NoCall
    /\ input = <<>>
    /\ triples = <<>>
    /\ RunIdle
    /\ ArenaIdle

\* for triple in triples: the next triple of the slice.  Its endpoints and its
\* edge label are fixed here; the properties are drawn by the call that reads them.
ForTriple ==
    /\ pc = "loop"
    /\ \E l \in NodeLabels, r \in NodeLabels, e \in EdgeLabels,
          lv \in IdValues, rv \in IdValues :
          cur' = [left |-> <<l, lv>>, edge |-> e, right |-> <<r, rv>>]
    /\ pc' = "left"
    /\ UNCHANGED <<schema, occ, out>>
    /\ UNCHANGED <<parseVars, runVars>>
    /\ UNCHANGED arenaVars

\* extract_table_from_node(&mut schema, &triple.left)
ExtractLeft ==
    /\ pc = "left"
    /\ \E m \in NodeMaps(cur.left[1], cur.left[2]) : \E order \in HashOrders(DOMAIN m) :
          LET node == Node_new(cur.left[1], Properties_new(m, order))
              r == extract_table_from_node(schema, node)
          IN  IF r.ok
              THEN /\ schema' = r.tables
                   /\ occ' = Observe(occ, node.name, node.properties)
                   /\ pc' = "edge"
              ELSE /\ pc' = "panic_left"
                   /\ UNCHANGED <<schema, occ>>
    /\ UNCHANGED <<cur, out>>
    /\ UNCHANGED <<parseVars, runVars>>
    /\ UNCHANGED arenaVars

\* extract_schema_from_edge(&mut schema, &triple.edge)
ExtractEdge ==
    /\ pc = "edge"
    /\ \E edge \in EdgesBetween(cur.edge, cur.left, cur.right) :
          LET r == extract_schema_from_edge(schema, edge)
          IN  IF r.ok
              THEN /\ schema' = r.tables
                   /\ occ' = IF edge.properties.some
                             THEN Observe(occ, edge.name, edge.properties.value)
                             ELSE occ
                   /\ pc' = "right"
              ELSE /\ pc' = "panic_edge"
                   /\ UNCHANGED <<schema, occ>>
    /\ UNCHANGED <<cur, out>>
    /\ UNCHANGED <<parseVars, runVars>>
    /\ UNCHANGED arenaVars

\* extract_table_from_node(&mut schema, &triple.right)
ExtractRight ==
    /\ pc = "right"
    /\ \E m \in NodeMaps(cur.right[1], cur.right[2]) : \E order \in HashOrders(DOMAIN m) :
          LET node == Node_new(cur.right[1], Properties_new(m, order))
              r == extract_table_from_node(schema, node)
          IN  IF r.ok
              THEN /\ schema' = r.tables
                   /\ occ' = Observe(occ, node.name, node.properties)
                   /\ pc' = "loop"
              ELSE /\ pc' = "panic_right"
                   /\ UNCHANGED <<schema, occ>>
    /\ UNCHANGED <<cur, out>>
    /\ UNCHANGED <<parseVars, runVars>>
    /\ UNCHANGED arenaVars

\* The slice is exhausted: extract_schema returns the Schema.
Return ==
    /\ pc = "loop"
    /\ pc' = "returned"
    /\ UNCHANGED <<schema, cur, occ, out>>
    /\ UNCHANGED <<parseVars, runVars>>
    /\ UNCHANGED arenaVars

\* schema.iter_table(), the first call made on the returned Schema
IterTable ==
    /\ pc = "returned"
    /\ out = NoCall
    /\ \E order \in HashOrders(DOMAIN schema) :
          out' = [call |-> "iter_table", order |-> order,
                  result |-> Schema_iter_table(schema, order)]
    /\ UNCHANGED <<pc, schema, cur, occ>>
    /\ UNCHANGED <<parseVars, runVars>>
    /\ UNCHANGED arenaVars

\* table.iter_fields(), for a table of the returned Schema
IterFields ==
    /\ pc = "returned"
    /\ out = NoCall
    /\ \E t \in DOMAIN schema : \E order \in HashOrders(DOMAIN schema[t].fields) :
          out' = [call |-> "iter_fields", table |-> t, order |-> order,
                  result |-> Table_iter_fields(schema[t], order)]
    /\ UNCHANGED <<pc, schema, cur, occ>>
    /\ UNCHANGED <<parseVars, runVars>>
    /\ UNCHANGED arenaVars

\* table.generate_create_statement(), for a table of the returned Schema
GenerateCreateStatement ==
    /\ pc = "returned"
    /\ out = NoCall
    /\ \E t \in DOMAIN schema : \E order \in HashOrders(DOMAIN schema[t].fields) :
          out' = [call |-> "generate_create_statement", table |-> t, order |-> order,
                  result |-> Table_generate_create_statement(schema[t], order)]
    /\ UNCHANGED <<pc, schema, cur, occ>>
    /\ UNCHANGED <<parseVars, runVars>>
    /\ UNCHANGED arenaVars

Next ==
    \/ ForTriple
    \/ ExtractLeft
    \/ ExtractEdge
    \/ ExtractRight
    \/ Return
    \/ IterTable
    \/ IterFields
    \/ GenerateCreateStatement

Spec == Init /\ [][Next]_vars

----------------------------------------------------------------------------
(* Display of Value, Properties, Node, Edge and Triple *)

\* Display for Value
Value_Display(v) ==
    CASE v.tag = "Integer" -> <<[piece |-> "int", text |-> v.val]>>
      [] v.tag = "Double"  -> <<Str(v.val)>>
      [] v.tag = "String"  -> <<Lit("\""), Str(v.val), Lit("\"")>>
      [] v.tag = "Bool"    -> <<Lit(IF v.val THEN "true" ELSE "false")>>

\* The loop of Display for Properties over the entries the HashMap hands out:
\* self.inner.iter(), not the sorted Properties::iter.
RECURSIVE Properties_DisplayLoop(_, _, _)
Properties_DisplayLoop(properties, keys, first) ==
    IF keys = <<>> THEN <<>>
    ELSE LET k == Head(keys)
             v == properties.inner[k]
         IN  IF ~v.some
             THEN Properties_DisplayLoop(properties, Tail(keys), first)
             ELSE (IF first THEN <<>> ELSE <<Lit(",")>>)
                  \o <<Str(k), Lit(":")>> \o Value_Display(v.value)
                  \o Properties_DisplayLoop(properties, Tail(keys), FALSE)

\* Display for Properties
Properties_Display(properties) ==
    <<Lit("{")>> \o Properties_DisplayLoop(properties, properties.order, TRUE)
    \o <<Lit("}")>>

\* Display for Node
Node_Display(node) ==
    <<Lit("(:"), Str(node.name)>> \o Properties_Display(node.properties) \o <<Lit(")")>>

\* Display for Edge
Edge_Display(edge) ==
    IF edge.properties.some
    THEN <<Lit("[:"), Str(edge.name)>> \o Properties_Display(edge.properties.value)
         \o <<Lit("]")>>
    ELSE <<Lit("[:"), Str(edge.name), Lit("]")>>

\* Triple::generate_create_statement
Triple_generate_create_statement(triple) ==
    <<Lit("CREATE ")>> \o Node_Display(triple.left) \o <<Lit(" -")>>
    \o Edge_Display(triple.edge) \o <<Lit("->")>> \o Node_Display(triple.right)
    \o <<Lit(";")>>

----------------------------------------------------------------------------
(* The parse tree handed over by the grammar, and the functions that walk it *)

\* A pair of the parse tree.  A literal carries its source text; the text of an
\* integer literal is its sequence of decimal digits.
LiteralPair(rule, text) == [rule |-> rule, text |-> text]
NodeLabelPair(name)     == [rule |-> "NodeLabel", text |-> name]
EdgeLabelPair(name)     == [rule |-> "EdgeLabel", text |-> name]
PropertiesPair(entries) == [rule |-> "Properties", entries |-> entries]
NodePatternPair(inner)  == [rule |-> "NodePattern", inner |-> inner]
EdgePatternPair(inner)  == [rule |-> "EdgePattern", inner |-> inner]
LEFT_ARROW              == [rule |-> "LEFT_ARROW"]
RIGHT_ARROW             == [rule |-> "RIGHT_ARROW"]

\* str::parse::<i64> on a run of decimal digits.
RECURSIVE ParseI64(_)
ParseI64(digits) ==
    IF digits = <<>> THEN 0
    ELSE 10 * ParseI64(SubSeq(digits, 1, Len(digits) - 1)) + digits[Len(digits)]

\* parse_literal, with parse_boolean_literal, parse_number_literal and
\* parse_string_literal; ok = FALSE is the panic of unimplemented!.
parse_literal(pair) ==
    CASE pair.rule = "TRUE"           -> [ok |-> TRUE, value |-> Some(ValueBool(TRUE))]
      [] pair.rule = "FALSE"          -> [ok |-> TRUE, value |-> Some(ValueBool(FALSE))]
      [] pair.rule = "DoubleLiteral"  -> [ok |-> TRUE, value |-> Some(ValueDouble(pair.text))]
      [] pair.rule = "IntegerLiteral" ->
            [ok |-> TRUE, value |-> Some(ValueInteger(ParseI64(pair.text)))]
      [] pair.rule = "StringLiteral"  -> [ok |-> TRUE, value |-> Some(ValueString(pair.text))]
      [] pair.rule = "MapLiteral"     -> [ok |-> FALSE, panic |-> "panic_unimplemented"]
      [] pair.rule = "NULL"           -> [ok |-> TRUE, value |-> None]

\* parse_map_literal: the entries in source order, a later entry replacing an
\* earlier one of the same key (HashMap::insert).
RECURSIVE parse_map_literal(_, _)
parse_map_literal(entries, map) ==
    IF entries = <<>> THEN [ok |-> TRUE, map |-> map]
    ELSE LET key == Head(entries)[1]
             lit == parse_literal(Head(entries)[2])
         IN  IF ~lit.ok THEN lit
             ELSE parse_map_literal(Tail(entries), (key :> lit.value) @@ map)

\* parse_properties
parse_properties(pair) == parse_map_literal(pair.entries, <<>>)

IsSpace(c) == c = 32

\* str::trim
RECURSIVE Trim(_)
Trim(str) ==
    IF str = <<>> THEN str
    ELSE IF IsSpace(Head(str)) THEN Trim(Tail(str))
    ELSE IF IsSpace(str[Len(str)]) THEN Trim(SubSeq(str, 1, Len(str) - 1))
    ELSE str

\* The loop shared by parse_node_pattern and parse_edge_pattern: the label and the
\* property map found among the children of the pattern.
RECURSIVE PatternLoop(_, _, _)
PatternLoop(inner, name, map) ==
    IF inner = <<>> THEN [ok |-> TRUE, name |-> name, map |-> map]
    ELSE IF Head(inner).rule \in {"NodeLabel", "EdgeLabel"}
    THEN PatternLoop(Tail(inner), Head(inner).text, map)
    ELSE LET r == parse_properties(Head(inner))
         IN  IF ~r.ok THEN r ELSE PatternLoop(Tail(inner), name, r.map)

\* parse_node_pattern; `order` is the order in which the HashMap it builds hands
\* out its keys.  ok = FALSE is a panic.
parse_node_pattern(pair, order) ==
    LET r == PatternLoop(pair.inner, <<>>, <<>>)
    IN  IF ~r.ok THEN r
        ELSE LET properties == Properties_new(r.map, order)
             IN  IF Node_new_panics(properties)
                 THEN [ok |-> FALSE, panic |-> "panic_unwrap_none"]
                 ELSE [ok |-> TRUE, node |-> Node_new(Trim(r.name), properties)]

\* parse_edge_pattern
parse_edge_pattern(pair, left_node, right_node, order) ==
    LET r == PatternLoop(pair.inner, <<>>, <<>>)
    IN  IF ~r.ok THEN r
        ELSE LET edge == Edge_new(Trim(r.name),
                                  <<left_node.name, left_node.primary_value>>,
                                  <<right_node.name, right_node.primary_value>>)
             IN  [ok |-> TRUE,
                  edge |-> IF r.map # <<>>
                           THEN Edge_set_properties(edge, Properties_new(r.map, order))
                           ELSE edge]

Triple_new(left, edge, right) == [left |-> left, edge |-> edge, right |-> right]

\* A variant of parse_pattern_element that keeps source order for a left arrow.
parse_pattern_element_unswapped(elems, orders) ==
    LET left == parse_node_pattern(elems[1], orders.first)
        is_right == elems[2].rule # "LEFT_ARROW"
        edge_pair == IF is_right THEN elems[2] ELSE elems[3]
        right == parse_node_pattern(elems[4], orders.second)
    IN  IF ~left.ok THEN left
        ELSE IF ~right.ok THEN right
        ELSE LET edge == parse_edge_pattern(edge_pair, left.node, right.node, orders.edge)
             IN  IF ~edge.ok THEN edge
                 ELSE [ok |-> TRUE, triple |-> Triple_new(left.node, edge.edge, right.node)]

\* parse_pattern_element over the children of a PatternElement (SP filtered out):
\* NodePattern EdgePattern RIGHT_ARROW NodePattern for `(..) -[..]-> (..)`, and
\* NodePattern LEFT_ARROW EdgePattern NodePattern for `(..) <-[..]- (..)`.
parse_pattern_element(elems, orders) ==
    LET left == parse_node_pattern(elems[1], orders.first)
        is_right == elems[2].rule # "LEFT_ARROW"
        edge_pair == IF is_right THEN elems[2] ELSE elems[3]
        right == parse_node_pattern(elems[4], orders.second)
    IN  IF ~left.ok THEN left
        ELSE IF ~right.ok THEN right
        ELSE IF is_right
        THEN LET edge == parse_edge_pattern(edge_pair, left.node, right.node, orders.edge)
             IN  IF ~edge.ok THEN edge
                 ELSE [ok |-> TRUE, triple |-> Triple_new(left.node, edge.edge, right.node)]
        ELSE LET edge == parse_edge_pattern(edge_pair, right.node, left.node, orders.edge)
             IN  IF ~edge.ok THEN edge
                 ELSE [ok |-> TRUE, triple |-> Triple_new(right.node, edge.edge, left.node)]

----------------------------------------------------------------------------
(* The inputs of parse: the patterns of a PatternList *)

MaxPatterns == 2

Digits1 == <<1>>            \* "1"
Digits2 == <<0, 2>>         \* "02"

IdEntry(digits) == <<KeyId, LiteralPair("IntegerLiteral", digits)>>

\* The first node pattern of a statement: `(:A {id:1})`, and the same without
\* "id", with a null "id", and with no property map at all.
FirstNodePatterns ==
    {NodePatternPair(<<NodeLabelPair(LabelA), PropertiesPair(<<IdEntry(Digits1)>>)>>),
     NodePatternPair(<<NodeLabelPair(LabelA),
                       PropertiesPair(<<<<KeyX, LiteralPair("StringLiteral", TextS)>>>>)>>),
     NodePatternPair(<<NodeLabelPair(LabelA),
                       PropertiesPair(<<<<KeyId, LiteralPair("NULL", <<>>)>>>>)>>),
     NodePatternPair(<<NodeLabelPair(LabelA)>>)}

\* The second node pattern: `(:B {id:02, x:"s", a:null})`, the same with a null
\* "id", and `(:B {id:02, x:{..}})` with a map literal as a value.
SecondNodePatterns ==
    {NodePatternPair(<<NodeLabelPair(LabelB),
                       PropertiesPair(<<IdEntry(Digits2),
                                        <<KeyX, LiteralPair("StringLiteral", TextS)>>,
                                        <<KeyA, LiteralPair("NULL", <<>>)>>>>)>>),
     NodePatternPair(<<NodeLabelPair(LabelB),
                       PropertiesPair(<<<<KeyId, LiteralPair("NULL", <<>>)>>,
                                        <<KeyX, LiteralPair("StringLiteral", TextS)>>>>)>>),
     NodePatternPair(<<NodeLabelPair(LabelB),
                       PropertiesPair(<<IdEntry(Digits2),
                                        <<KeyX, LiteralPair("MapLiteral", <<>>)>>>>)>>)}

\* The edge pattern: `[:R]` and `[:R {x:true, a:null}]`.
EdgePatterns ==
    {EdgePatternPair(<<EdgeLabelPair(LabelR)>>),
     EdgePatternPair(<<EdgeLabelPair(LabelR),
                       PropertiesPair(<<<<KeyX, LiteralPair("TRUE", <<>>)>>,
                                        <<KeyA, LiteralPair("NULL", <<>>)>>>>)>>)}

PatternElements ==
    {<<n1, e, RIGHT_ARROW, n2>> :
        n1 \in FirstNodePatterns, e \in EdgePatterns, n2 \in SecondNodePatterns}
    \cup
    {<<n1, LEFT_ARROW, e, n2>> :
        n1 \in FirstNodePatterns, e \in EdgePatterns, n2 \in SecondNodePatterns}

\* The keys written in the property map of a pattern.
KeysWritten(pair) ==
    UNION {{p.entries[i][1] : i \in 1..Len(p.entries)} :
             p \in {pair.inner[j] : j \in {j \in 1..Len(pair.inner) :
                                             pair.inner[j].rule = "Properties"}}}

\* The orders in which the three HashMaps built for a statement may hand out
\* their keys.
MapOrders(elems) ==
    LET edge_pair == IF elems[2].rule = "LEFT_ARROW" THEN elems[3] ELSE elems[2]
    IN  [first : HashOrders(KeysWritten(elems[1])),
         edge : HashOrders(KeysWritten(edge_pair)),
         second : HashOrders(KeysWritten(elems[4]))]

----------------------------------------------------------------------------
(* parse, pattern by pattern, and the calls made on the triples it returns *)

InitParse ==
    /\ pc = "parse"
    /\ input = <<>>
    /\ triples = <<>>
    /\ schema = Schema_new
    /\ cur = [left |-> <<>>, edge |-> <<>>, right |-> <<>>]
    /\ occ = <<>>
    /\ out = NoCall
    /\ RunIdle
    /\ ArenaIdle

\* parse_pattern on the next Pattern of the list; a panic ends parse.
ParsePattern ==
    /\ pc = "parse"
    /\ Len(input) < MaxPatterns
    /\ \E elems \in PatternElements : \E orders \in MapOrders(elems) :
          LET r == parse_pattern_element(elems, orders)
          IN  /\ input' = Append(input, elems)
              /\ IF r.ok
                 THEN /\ triples' = Append(triples, r.triple)
                      /\ pc' = "parse"
                 ELSE /\ pc' = r.panic
                      /\ UNCHANGED triples
    /\ UNCHANGED <<foldVars, out, runVars>>
    /\ UNCHANGED arenaVars

\* The list is exhausted: parse returns Ok(triples).
ParseReturn ==
    /\ pc = "parse"
    /\ pc' = "parsed"
    /\ UNCHANGED <<foldVars, out, parseVars, runVars>>
    /\ UNCHANGED arenaVars

\* triple.generate_create_statement(), for a triple of the returned list
TripleGenerateCreateStatement ==
    /\ pc = "parsed"
    /\ out = NoCall
    /\ \E i \in 1..Len(triples) :
          out' = [call |-> "Triple::generate_create_statement", index |-> i,
                  result |-> Triple_generate_create_statement(triples[i])]
    /\ UNCHANGED <<pc, foldVars, parseVars, runVars>>
    /\ UNCHANGED arenaVars

NextParse ==
    \/ ParsePattern
    \/ ParseReturn
    \/ TripleGenerateCreateStatement

SpecParse == InitParse /\ [][NextParse]_vars

----------------------------------------------------------------------------
(* KuzuCommand::run: parse, extract_schema, the CREATE statements, the csv files *)

\* triples.push(parse_pattern(pattern)); a panic is not pushed.
Push(acc, r) ==
    IF r.ok THEN [ok |-> TRUE, triples |-> Append(acc.triples, r.triple)] ELSE r

\* parse_pattern_list: the patterns in order; `orders` gives, per pattern, the
\* orders of the HashMaps built for it.  ok = FALSE is a panic.
RECURSIVE parse_pattern_list(_, _, _)
parse_pattern_list(patterns, orders, acc) ==
    IF patterns = <<>> \/ ~acc.ok THEN acc
    ELSE parse_pattern_list(Tail(patterns), Tail(orders),
                            Push(acc, parse_pattern_element(Head(patterns), Head(orders))))

\* The loop of extract_schema.  ok = FALSE is the panic of a failed assertion.
RECURSIVE ExtractLoop(_, _)
ExtractLoop(ts, tables) ==
    IF ts = <<>> THEN [ok |-> TRUE, tables |-> tables]
    ELSE LET l == extract_table_from_node(tables, Head(ts).left)
         IN  IF ~l.ok THEN l
             ELSE LET e == extract_schema_from_edge(l.tables, Head(ts).edge)
                  IN  IF ~e.ok THEN e
                      ELSE LET r == extract_table_from_node(e.tables, Head(ts).right)
                           IN  IF ~r.ok THEN r ELSE ExtractLoop(Tail(ts), r.tables)

\* extract_schema
extract_schema(ts) == ExtractLoop(ts, Schema_new)

\* PartialEq for Node and for Edge: HashMaps compare by content.
NodeEq(a, b) ==
    /\ a.name = b.name
    /\ a.properties.inner = b.properties.inner
    /\ a.primary_value = b.primary_value

EdgeEq(a, b) ==
    /\ a.name = b.name
    /\ a.properties.some = b.properties.some
    /\ a.properties.some => a.properties.value.inner = b.properties.value.inner
    /\ a.from = b.from
    /\ a.to = b.to

\* nodes.entry(name).or_insert_with(HashSet::new).insert(node)
NodesInsert(map, name, node) ==
    IF name \in DOMAIN map
    THEN IF \E y \in map[name] : NodeEq(y, node)
         THEN map
         ELSE [map EXCEPT ![name] = @ \cup {node}]
    ELSE map @@ (name :> {node})

\* edges.entry(name).or_insert_with(HashSet::new).insert(edge)
EdgesInsert(map, name, edge) ==
    IF name \in DOMAIN map
    THEN IF \E y \in map[name] : EdgeEq(y, edge)
         THEN map
         ELSE [map EXCEPT ![name] = @ \cup {edge}]
    ELSE map @@ (name :> {edge})

\* The loop that groups the nodes and the edges of the triples by label.
RECURSIVE GroupLoop(_, _)
GroupLoop(ts, maps) ==
    IF ts = <<>> THEN maps
    ELSE GroupLoop(Tail(ts),
                   [nodes |-> NodesInsert(NodesInsert(maps.nodes, Head(ts).left.name,
                                                      Head(ts).left),
                                          Head(ts).right.name, Head(ts).right),
                    edges |-> EdgesInsert(maps.edges, Head(ts).edge.name, Head(ts).edge)])

\* The values of a Properties, in key order, an empty field for a null, joined
\* by commas.
PropertiesRow(properties) ==
    LET keys == Properties_iter(properties)
        cell(k) == IF properties.inner[k].some
                   THEN Value_Display(properties.inner[k].value)
                   ELSE <<>>
    IN  Join([i \in 1..Len(keys) |-> cell(keys[i])], Lit(","))

\* The line written for a node.
NodeRow(node) == PropertiesRow(node.properties)

\* The line written for an edge.
EdgeRow(edge) ==
    Value_Display(edge.from[2]) \o <<Lit(",")>> \o Value_Display(edge.to[2])
    \o (IF edge.properties.some
        THEN <<Lit(",")>> \o PropertiesRow(edge.properties.value)
        ELSE <<>>)

\* format!("COPY {} FROM '{}'", table_name, path): the path lies in a fresh
\* temporary directory.
CopyStatement(table_name) ==
    <<Lit("COPY "), Str(table_name), Lit(" FROM '"),
      [piece |-> "tmp", text |-> table_name], Lit(".csv"), Lit("'")>>

MaxRunPatterns == 1

\* The statements run is given: `(:A ..) -[..]-> (..)`.
RunFirstNodePatterns ==
    {NodePatternPair(<<NodeLabelPair(LabelA), PropertiesPair(<<IdEntry(Digits1)>>)>>),
     NodePatternPair(<<NodeLabelPair(LabelA)>>)}

RunSecondNodePatterns ==
    {NodePatternPair(<<NodeLabelPair(LabelB), PropertiesPair(<<IdEntry(Digits2)>>)>>),
     NodePatternPair(<<NodeLabelPair(LabelA),
                       PropertiesPair(<<IdEntry(Digits2),
                                        <<KeyA, LiteralPair("NULL", <<>>)>>>>)>>)}

RunEdgePatterns ==
    {EdgePatternPair(<<EdgeLabelPair(LabelR)>>),
     EdgePatternPair(<<EdgeLabelPair(LabelR),
                       PropertiesPair(<<<<KeyX, LiteralPair("TRUE", <<>>)>>>>)>>),
     EdgePatternPair(<<EdgeLabelPair(LabelA)>>),
     EdgePatternPair(<<EdgeLabelPair(LabelR),
                       PropertiesPair(<<<<KeyX, LiteralPair("MapLiteral", <<>>)>>>>)>>)}

RunPatterns ==
    {<<n1, e, RIGHT_ARROW, n2>> :
        n1 \in RunFirstNodePatterns, e \in RunEdgePatterns, n2 \in RunSecondNodePatterns}

\* What standard input may hold: text the grammar rejects, or up to
\* MaxRunPatterns statements.
RunInputs ==
    {[grammatical |-> FALSE]} \cup
    {[grammatical |-> TRUE, patterns |-> p] :
        p \in UNION {[1..n -> RunPatterns] : n \in 0..MaxRunPatterns}}

InitRun ==
    /\ pc = "run_parse"
    /\ stdin \in RunInputs
    /\ conn = <<>>
    /\ files = <<>>
    /\ nodes = <<>>
    /\ edges = <<>>
    /\ iter = <<>>
    /\ prev = NoRun
    /\ input = <<>>
    /\ triples = <<>>
    /\ schema = Schema_new
    /\ cur = [left |-> <<>>, edge |-> <<>>, right |-> <<>>]
    /\ occ = <<>>
    /\ out = NoCall
    /\ ArenaIdle

\* let triples = cypher::parse(&input)?;
RunParse ==
    /\ pc = "run_parse"
    /\ IF ~stdin.grammatical
       THEN /\ pc' = "returned_Err_grammar"
            /\ UNCHANGED triples
       ELSE \E orders \in {o \in [1..Len(stdin.patterns) ->
                                    UNION {MapOrders(stdin.patterns[i]) :
                                             i \in 1..Len(stdin.patterns)}] :
                             \A i \in 1..Len(stdin.patterns) :
                                o[i] \in MapOrders(stdin.patterns[i])} :
               LET r == parse_pattern_list(stdin.patterns, orders,
                                            [ok |-> TRUE, triples |-> <<>>])
               IN  IF r.ok
                   THEN /\ triples' = r.triples
                        /\ pc' = "run_extract"
                   ELSE /\ pc' = r.panic
                        /\ UNCHANGED triples
    /\ UNCHANGED <<foldVars, out, input, runVars>>
    /\ UNCHANGED arenaVars

\* A variant of the extraction step that goes on with the tables built so far
\* when an assertion fails.
RunExtract_partial ==
    /\ pc = "run_extract"
    /\ schema' = extract_schema(triples).tables
    /\ pc' = "run_iter_table"
    /\ UNCHANGED <<cur, occ, out, parseVars, runVars>>
    /\ UNCHANGED arenaVars

\* let schema = cypher::extract_schema(&triples);
RunExtract ==
    /\ pc = "run_extract"
    /\ LET r == extract_schema(triples)
       IN  IF r.ok
           THEN /\ schema' = r.tables
                /\ pc' = "run_iter_table"
           ELSE /\ pc' = "panic_assert_kind"
                /\ UNCHANGED schema
    /\ UNCHANGED <<cur, occ, out, parseVars, runVars>>
    /\ UNCHANGED arenaVars

\* for table in schema.iter_table()
RunIterTable ==
    /\ pc = "run_iter_table"
    /\ \E order \in HashOrders(DOMAIN schema) :
          iter' = Schema_iter_table(schema, order)
    /\ pc' = "run_create"
    /\ UNCHANGED <<foldVars, out, parseVars, stdin, conn, files, nodes, edges, prev>>
    /\ UNCHANGED arenaVars

\* conn.query(&table.generate_create_statement())?, for the next table
RunCreateTable ==
    /\ pc = "run_create"
    /\ iter # <<>>
    /\ \E order \in HashOrders(DOMAIN Head(iter).fields) :
          conn' = Append(conn, Table_generate_create_statement(Head(iter), order))
    /\ \E ok \in BOOLEAN :
          IF ok
          THEN /\ iter' = Tail(iter)
               /\ pc' = "run_create"
          ELSE /\ pc' = "returned_Err_query"
               /\ UNCHANGED iter
    /\ UNCHANGED <<foldVars, out, parseVars, stdin, files, nodes, edges, prev>>
    /\ UNCHANGED arenaVars

\* The triples are grouped by label; for (table_name, nodes) in &nodes
RunGroup ==
    /\ pc = "run_create"
    /\ iter = <<>>
    /\ LET maps == GroupLoop(triples, [nodes |-> <<>>, edges |-> <<>>])
       IN  /\ nodes' = maps.nodes
           /\ edges' = maps.edges
           /\ iter' \in HashOrders(DOMAIN maps.nodes)
    /\ pc' = "run_nodes"
    /\ UNCHANGED <<foldVars, out, parseVars, stdin, conn, files, prev>>
    /\ UNCHANGED arenaVars

\* The csv file of the next node label is written, then copied.
RunWriteNodes ==
    /\ pc = "run_nodes"
    /\ iter # <<>>
    /\ \E order \in HashOrders(nodes[Head(iter)]) :
          files' = Append(files, [name |-> Head(iter),
                                  rows |-> [i \in 1..Len(order) |-> NodeRow(order[i])]])
    /\ conn' = Append(conn, CopyStatement(Head(iter)))
    /\ \E ok \in BOOLEAN :
          IF ok
          THEN /\ iter' = Tail(iter)
               /\ pc' = "run_nodes"
          ELSE /\ pc' = "returned_Err_query"
               /\ UNCHANGED iter
    /\ UNCHANGED <<foldVars, out, parseVars, stdin, nodes, edges, prev>>
    /\ UNCHANGED arenaVars

\* for (table_name, edges) in &edges
RunIterEdges ==
    /\ pc = "run_nodes"
    /\ iter = <<>>
    /\ iter' \in HashOrders(DOMAIN edges)
    /\ pc' = "run_edges"
    /\ UNCHANGED <<foldVars, out, parseVars, stdin, conn, files, nodes, edges, prev>>
    /\ UNCHANGED arenaVars

\* The csv file of the next edge label is written, then copied.
RunWriteEdges ==
    /\ pc = "run_edges"
    /\ iter # <<>>
    /\ \E order \in HashOrders(edges[Head(iter)]) :
          files' = Append(files, [name |-> Head(iter),
                                  rows |-> [i \in 1..Len(order) |-> EdgeRow(order[i])]])
    /\ conn' = Append(conn, CopyStatement(Head(iter)))
    /\ \E ok \in BOOLEAN :
          IF ok
          THEN /\ iter' = Tail(iter)
               /\ pc' = "run_edges"
          ELSE /\ pc' = "returned_Err_query"
               /\ UNCHANGED iter
    /\ UNCHANGED <<foldVars, out, parseVars, stdin, nodes, edges, prev>>
    /\ UNCHANGED arenaVars

\* Ok(())
RunReturn ==
    /\ pc = "run_edges"
    /\ iter = <<>>
    /\ pc' = "run_done"
    /\ UNCHANGED <<foldVars, out, parseVars, runVars>>
    /\ UNCHANGED arenaVars

\* The command is run once more, on the same input and a fresh output directory.
RunAgain ==
    /\ pc = "run_done"
    /\ prev = NoRun
    /\ prev' = [ran |-> TRUE, conn |-> conn, files |-> files]
    /\ pc' = "run_parse"
    /\ conn' = <<>>
    /\ files' = <<>>
    /\ nodes' = <<>>
    /\ edges' = <<>>
    /\ triples' = <<>>
    /\ schema' = Schema_new
    /\ UNCHANGED <<cur, occ, out, input, stdin, iter>>
    /\ UNCHANGED arenaVars

NextRun ==
    \/ RunParse
    \/ RunExtract
    \/ RunIterTable
    \/ RunCreateTable
    \/ RunGroup
    \/ RunWriteNodes
    \/ RunIterEdges
    \/ RunWriteEdges
    \/ RunReturn
    \/ RunAgain

SpecRun == InitRun /\ [][NextRun]_vars

----------------------------------------------------------------------------
(* Arena (src/lib.rs): strings interned in order of first insertion *)

\* A variant of insert that pushes the string whether or not it is indexed.
Arena_insert_always_push(a, node) ==
    [arena |-> [nodes |-> Append(a.nodes, node),
                inverted_index |-> [k \in DOMAIN a.inverted_index \cup {node} |->
                                       IF k = node THEN Len(a.nodes)
                                       ELSE a.inverted_index[k]]],
     id |-> Len(a.nodes)]

\* Arena::insert: the id the index holds for the string, or, for a string that is
\* not indexed, nodes.len(), under which it is pushed and indexed.
Arena_insert(a, node) ==
    IF node \in DOMAIN a.inverted_index
    THEN [arena |-> a, id |-> a.inverted_index[node]]
    ELSE [arena |-> [nodes |-> Append(a.nodes, node),
                     inverted_index |-> a.inverted_index @@ (node :> Len(a.nodes))],
          id |-> Len(a.nodes)]

MaxInserts == 4

\* The strings inserted: "a", "b", "c", "d".
ArenaStrings == {<<97>>, <<98>>, <<99>>, <<100>>}

InitArena ==
    /\ pc = "arena"
    /\ arena = Arena_new
    /\ hist = <<>>
    /\ stdin = [grammatical |-> TRUE, patterns |-> <<>>]
    /\ conn = <<>>
    /\ files = <<>>
    /\ nodes = <<>>
    /\ edges = <<>>
    /\ iter = <<>>
    /\ prev = NoRun
    /\ input = <<>>
    /\ triples = <<>>
    /\ schema = Schema_new
    /\ cur = [left |-> <<>>, edge |-> <<>>, right |-> <<>>]
    /\ occ = <<>>
    /\ out = NoCall

\* arena.insert(node)
ArenaInsert ==
    /\ pc = "arena"
    /\ Len(hist) < MaxInserts
    /\ \E node \in ArenaStrings :
          LET r == Arena_insert(arena, node)
          IN  /\ arena' = r.arena
              /\ hist' = Append(hist, [node |-> node, id |-> r.id,
                                       nodes |-> r.arena.nodes])
    /\ UNCHANGED <<pc, foldVars, out, parseVars, runVars>>

NextArena == ArenaInsert

SpecArena == InitArena /\ [][NextArena]_vars

----------------------------------------------------------------------------
(* Properties of extract_schema and of the Schema it returns *)

Panicked == pc \in {"panic_left", "panic_edge", "panic_right"}

\* The field type merge_properties derives from an occurrence of a given variant.
FieldTypeOfVariant(v) ==
    CASE v = "Integer" -> "Integer"
      [] v = "Double"  -> "Double"
      [] v = "String"  -> "String"
      [] v = "Bool"    -> "Boolean"
      [] v = "None"    -> "String"

\* The (table, key) pairs of the fields the Schema holds.
FieldsOfSchema ==
    UNION {{<<t, k>> : k \in DOMAIN schema[t].fields} : t \in DOMAIN schema}

\* The call whose assertion failed was made on a label that names a table of the
\* other kind.
PanicIsKindConflict ==
    /\ pc = "panic_left" =>
         cur.left[1] \in DOMAIN schema /\ schema[cur.left[1]].type.kind = "Edge"
    /\ pc = "panic_edge" =>
         cur.edge \in DOMAIN schema /\ schema[cur.edge].type.kind = "Node"
    /\ pc = "panic_right" =>
         cur.right[1] \in DOMAIN schema /\ schema[cur.right[1]].type.kind = "Edge"

\* C1: every field of every table has the type derived from the first occurrence
\* of its key merged into that table (String when that occurrence was a null),
\* whatever the variants of the later occurrences; every merged key has its field;
\* and the fold fails only on a table-kind conflict, never on an occurrence.
FirstOccurrenceFixesType ==
    /\ \A p \in FieldsOfSchema :
          /\ p \in DOMAIN occ
          /\ schema[p[1]].fields[p[2]].type = FieldTypeOfVariant(occ[p].first)
    /\ \A p \in DOMAIN occ : p \in FieldsOfSchema
    /\ PanicIsKindConflict

\* A field whose latest occurrence differs in variant from its first one.
LaterOccurrenceOfOtherVariant ==
    \E p \in FieldsOfSchema :
        /\ occ[p].first = "Integer"
        /\ occ[p].last = "String"

\* C2: a field is nullable exactly when one of the occurrences of its key merged
\* into its table was a null.
NullableIffNullOccurred ==
    \A p \in FieldsOfSchema :
        /\ p \in DOMAIN occ
        /\ schema[p[1]].fields[p[2]].nullable <=> occ[p].null

\* A field first seen with a value, then with a null, then with a value again.
NullableSetByLaterNull ==
    \E p \in FieldsOfSchema :
        occ[p].first # "None" /\ occ[p].null /\ occ[p].last # "None"

\* C3 as stated: a key of a node table first seen null and then seen with an
\* Integer gives an Integer field that is nullable.
NullThenIntegerIsInteger ==
    \A p \in FieldsOfSchema :
        (/\ schema[p[1]].type.kind = "Node"
         /\ occ[p].first = "None"
         /\ occ[p].last = "Integer")
        => (/\ schema[p[1]].fields[p[2]].type = "Integer"
            /\ schema[p[1]].fields[p[2]].nullable)

\* C3 as amended: a key of a node table first seen null and then seen with an
\* Integer gives a String field that is nullable.
NullThenIntegerIsNullableString ==
    \A p \in FieldsOfSchema :
        (/\ schema[p[1]].type.kind = "Node"
         /\ occ[p].first = "None"
         /\ occ[p].last = "Integer")
        => (/\ schema[p[1]].fields[p[2]].type = "String"
            /\ schema[p[1]].fields[p[2]].nullable)

\* Key x of node table A was first seen null and last seen with an Integer.
NullThenIntegerMerged ==
    /\ LabelA \in DOMAIN schema
    /\ schema[LabelA].type.kind = "Node"
    /\ <<LabelA, KeyX>> \in DOMAIN occ
    /\ occ[<<LabelA, KeyX>>].first = "None"
    /\ occ[<<LabelA, KeyX>>].last = "Integer"

\* The next call of the fold is made on a label that names a table of the other kind.
ConflictAhead ==
    \/ pc = "left" /\ cur.left[1] \in DOMAIN schema
                   /\ schema[cur.left[1]].type.kind = "Edge"
    \/ pc = "edge" /\ cur.edge \in DOMAIN schema
                   /\ schema[cur.edge].type.kind = "Node"
    \/ pc = "right" /\ cur.right[1] \in DOMAIN schema
                    /\ schema[cur.right[1]].type.kind = "Edge"

\* C4: when a label is used as a node label after being an edge label, or as an
\* edge label after being a node label, extract_schema returns the error value
\* SchemaKindConflict to its caller.
KindConflictReturnsError ==
    [][ConflictAhead => pc' = "returned_Err_SchemaKindConflict"]_vars

Ascending(names) ==
    \A i, j \in 1..Len(names) : i < j => StrLess(names[i], names[j])

\* C6: iter_table yields the Node tables before the Edge tables, and the tables of
\* either kind in ascending order of name.
IterTableNodesFirstThenByName ==
    out.call = "iter_table" =>
        \A i, j \in 1..Len(out.result) : i < j =>
            LET a == out.result[i]
                b == out.result[j]
            IN  /\ ~(a.type.kind = "Edge" /\ b.type.kind = "Node")
                /\ a.type.kind = b.type.kind => StrLess(a.name, b.name)

TypeNames == {"INT64", "DOUBLE", "BOOLEAN", "STRING"}

\* The names of the field entries `<name> <TYPE>` of a statement, in text order.
FieldNamesIn(text) ==
    LET isEntry(i) == /\ i + 2 <= Len(text)
                      /\ text[i].piece = "str"
                      /\ text[i + 1] = Lit(" ")
                      /\ text[i + 2].piece = "lit"
                      /\ text[i + 2].text \in TypeNames
        at == SelectSeq([i \in 1..Len(text) |-> i], isEntry)
    IN  [n \in 1..Len(at) |-> text[at[n]].text]

\* C8: iter_fields, and the field list of the statement generate_create_statement
\* returns, list every field of the table once, in ascending order of name.
FieldsListedOnceAscending ==
    /\ out.call = "iter_fields" =>
          LET names == [i \in 1..Len(out.result) |-> out.result[i].name]
          IN  /\ {names[i] : i \in 1..Len(names)} = DOMAIN schema[out.table].fields
              /\ Ascending(names)
    /\ out.call = "generate_create_statement" =>
          LET names == FieldNamesIn(out.result)
          IN  /\ {names[i] : i \in 1..Len(names)} = DOMAIN schema[out.table].fields
              /\ Ascending(names)

\* A statement was generated for a table whose HashMap handed out two or more
\* fields in descending order.
StatementFromUnsortedFields ==
    /\ out.call = "generate_create_statement"
    /\ Len(out.order) >= 2
    /\ StrLess(out.order[2], out.order[1])

\* The Edge tables of the Schema.
EdgeTables == {t \in DOMAIN schema : schema[t].type.kind = "Edge"}

\* The place of the table named `name` in what iter_table yielded.
PlaceOf(result, name) == CHOOSE i \in 1..Len(result) : result[i].name = name

\* C11: in a returned Schema the two labels an Edge table runs between name Node
\* tables, and iter_table yields both of them before that Edge table.
EdgeTablesFollowTheirNodeTables ==
    /\ pc = "returned" =>
          \A e \in EdgeTables :
              \A l \in {schema[e].type.from, schema[e].type.to} :
                  l \in DOMAIN schema /\ schema[l].type.kind = "Node"
    /\ out.call = "iter_table" =>
          /\ {out.result[i].name : i \in 1..Len(out.result)} = DOMAIN schema
          /\ \A e \in EdgeTables :
                \A l \in {schema[e].type.from, schema[e].type.to} :
                    PlaceOf(out.result, l) < PlaceOf(out.result, e)

\* iter_table ran on a Schema whose HashMap handed out an Edge table between two
\* different labels before both of its Node tables.
EdgeTableHandedOutFirst ==
    /\ out.call = "iter_table"
    /\ Len(out.order) >= 3
    /\ out.order[1] \in EdgeTables
    /\ schema[out.order[1]].type.from # schema[out.order[1]].type.to

\* The kind the running call gives to a table it creates.
KindAtCreation ==
    IF pc = "edge" THEN TableType_Edge(cur.left[1], cur.right[1]) ELSE TableType_Node

\* C14: a step of the fold gives a table it creates the kind of the call that
\* creates it (Node for a node, Edge(left label, right label) for an edge), and
\* changes nothing but the fields of a table that exists: its kind stays, also
\* when the label is used again between other endpoint labels.
KindFixedAtFirstCreation ==
    [][/\ \A t \in DOMAIN schema :
             /\ t \in DOMAIN schema'
             /\ schema'[t] = [schema[t] EXCEPT !.fields = schema'[t].fields]
       /\ \A t \in DOMAIN schema' \ DOMAIN schema :
             schema'[t].type = KindAtCreation]_vars

\* An edge was folded into an Edge table that was created between other endpoint
\* labels, and gave it a field.
EdgeLabelUsedBetweenOtherLabels ==
    /\ pc = "right"
    /\ cur.edge \in DOMAIN schema
    /\ schema[cur.edge].type # TableType_Edge(cur.left[1], cur.right[1])
    /\ schema[cur.edge].fields # <<>>

\* The Node tables of the Schema.
NodeTables == {t \in DOMAIN schema : schema[t].type.kind = "Node"}

\* C16: in a returned Schema every Node table has the primary key "id" and a field
\* "id" that is not nullable.
NodeTablesKeepIdNotNull ==
    pc = "returned" =>
        \A t \in NodeTables :
            /\ schema[t].primary_key = KeyId
            /\ KeyId \in DOMAIN schema[t].fields
            /\ schema[t].fields[KeyId].name = KeyId
            /\ ~schema[t].fields[KeyId].nullable

\* A Schema was returned with two Node tables, one of them with a nullable field.
NodeTableWithNullableFieldReturned ==
    /\ pc = "returned"
    /\ Cardinality(NodeTables) = 2
    /\ \E t \in NodeTables : \E k \in DOMAIN schema[t].fields :
          schema[t].fields[k].nullable

----------------------------------------------------------------------------
(* Properties of parse and of the triples it returns *)

\* The entries written in the property map of a pattern.
EntriesWritten(pair) ==
    UNION {{p.entries[i] : i \in 1..Len(p.entries)} :
             p \in {pair.inner[j] : j \in {j \in 1..Len(pair.inner) :
                                             pair.inner[j].rule = "Properties"}}}

\* The pattern writes no "id", or writes it null.
LacksId(pair) ==
    \A e \in EntriesWritten(pair) : e[1] = KeyId => e[2].rule = "NULL"

LabelWritten(pair) == pair.inner[1].text

\* C5: once parse has walked a statement one of whose node patterns has no "id",
\* or a null "id", it has returned the error MissingPrimaryKey to its caller.
MissingIdReturnsError ==
    \A i \in 1..Len(input) :
        (LacksId(input[i][1]) \/ LacksId(input[i][4]))
        => pc = "returned_Err_MissingPrimaryKey"

\* The keys listed inside each `{...}` of a text, brace by brace, in text order.
BraceKeys(text) ==
    LET idx == [i \in 1..Len(text) |-> i]
        isOpen(i) == text[i] = Lit("{")
        isClose(i) == text[i] = Lit("}")
        opens == SelectSeq(idx, isOpen)
        closes == SelectSeq(idx, isClose)
        keysIn(a, b) ==
            LET isKey(i) == /\ a < i
                            /\ i < b
                            /\ text[i].piece = "str"
                            /\ text[i + 1] = Lit(":")
                at == SelectSeq(idx, isKey)
            IN  [n \in 1..Len(at) |-> text[at[n]].text]
    IN  [n \in 1..Len(opens) |-> keysIn(opens[n], closes[n])]

\* The Properties a triple displays: of the left node, of the edge if it has any,
\* of the right node.
DisplayedProperties(triple) ==
    <<triple.left.properties>>
    \o (IF triple.edge.properties.some THEN <<triple.edge.properties.value>> ELSE <<>>)
    \o <<triple.right.properties>>

NonNullKeys(properties) ==
    {k \in DOMAIN properties.inner : properties.inner[k].some}

\* C9: each property brace of the text of Triple::generate_create_statement lists
\* the keys whose value is not null, each once, in ascending order.
BracesListNonNullAscending ==
    out.call = "Triple::generate_create_statement" =>
        LET braces == BraceKeys(out.result)
            owners == DisplayedProperties(triples[out.index])
        IN  /\ Len(braces) = Len(owners)
            /\ \A n \in 1..Len(braces) :
                  /\ {braces[n][i] : i \in 1..Len(braces[n])} = NonNullKeys(owners[n])
                  /\ Ascending(braces[n])

\* The node is the one written by the pattern: its label and its keys.
NodeOfPattern(node, pair) ==
    /\ node.name = LabelWritten(pair)
    /\ DOMAIN node.properties.inner = KeysWritten(pair)

\* C10: the edge of every triple runs from the triple's left node to its right
\* node, and the left node is the first node pattern of the statement for a right
\* arrow, the second one for a left arrow.
EdgeRunsLeftToRight ==
    \A i \in 1..Len(triples) :
        LET t == triples[i]
            first == input[i][1]
            second == input[i][4]
        IN  /\ t.edge.from = <<t.left.name, t.left.primary_value>>
            /\ t.edge.to = <<t.right.name, t.right.primary_value>>
            /\ input[i][2].rule # "LEFT_ARROW" =>
                  NodeOfPattern(t.left, first) /\ NodeOfPattern(t.right, second)
            /\ input[i][2].rule = "LEFT_ARROW" =>
                  NodeOfPattern(t.left, second) /\ NodeOfPattern(t.right, first)

\* parse has returned a list holding a triple written with a left arrow after one
\* written with a right arrow.
BothArrowsParsed ==
    /\ pc = "parsed"
    /\ Len(triples) = 2
    /\ input[1][2].rule # "LEFT_ARROW"
    /\ input[2][2].rule = "LEFT_ARROW"

----------------------------------------------------------------------------
(* Properties of KuzuCommand::run *)

IsCreate(stmt) == stmt[1] = Lit("CREATE ")

\* C7: a second run on the same input sends the same CREATE statements in the
\* same order and writes the same files with the same rows in the same order.
RunsAgree ==
    (pc = "run_done" /\ prev.ran) =>
        /\ SelectSeq(conn, IsCreate) = SelectSeq(prev.conn, IsCreate)
        /\ files = prev.files

\* The edge labels of the run all of whose edges carry no properties.
BareEdgeLabels ==
    {e \in DOMAIN edges : \A x \in edges[e] : ~x.properties.some}

\* `CREATE REL TABLE <name> (FROM <from> TO <to>);`
BareRelStatement(table) ==
    <<Lit("CREATE "), Lit("REL"), Lit(" TABLE "), Str(table.name), Lit(" "),
      Lit("(FROM "), Str(table.type.from), Lit(" TO "), Str(table.type.to),
      Lit(")"), Lit(";")>>

\* The statements sent that create the table named `name`.
CreatesOf(name) ==
    SelectSeq(conn, LAMBDA stmt : IsCreate(stmt) /\ stmt[4] = Str(name))

\* The rows of the files written for the label `name`.
RowsOf(name) ==
    UNION {{f.rows[i] : i \in 1..Len(f.rows)} :
             f \in {files[k] : k \in {k \in 1..Len(files) : files[k].name = name}}}

\* The table of such a label has no fields.
BareEdgeTableHasNoFields ==
    pc = "run_done" => \A e \in BareEdgeLabels : schema[e].fields = <<>>

\* Each row written for such a label is `from,to`.
BareEdgeRowsAreEndpoints ==
    pc = "run_done" =>
        \A e \in BareEdgeLabels :
            /\ Cardinality(RowsOf(e)) = Cardinality(edges[e])
            /\ \A x \in edges[e] :
                  Value_Display(x.from[2]) \o <<Lit(",")>> \o Value_Display(x.to[2])
                      \in RowsOf(e)

\* C13: for an edge label none of whose edges carries properties, the table has no
\* fields, the statement that creates it is `CREATE REL TABLE <name> (FROM <from>
\* TO <to>);` and nothing more, and each of its rows is `from,to`.
BareEdgeTableIsFromToOnly ==
    /\ BareEdgeTableHasNoFields
    /\ BareEdgeRowsAreEndpoints
    /\ pc = "run_done" =>
          \A e \in BareEdgeLabels :
              CreatesOf(e) = <<BareRelStatement(schema[e])>>

IsCopy(stmt) == stmt[1] = Lit("COPY ")

\* run ended while parsing or extracting: the grammar rejected the input, a node
\* had no primary key, a literal was not supported, or a label changed kind.
RunFailedEarly ==
    pc \in {"returned_Err_grammar", "panic_unwrap_none", "panic_unimplemented",
            "panic_assert_kind"}

\* C15: run has sent a statement only if every statement of the input was parsed
\* and the schema was extracted from all the triples; a run that failed in
\* parsing or extraction has sent none; and no CREATE statement follows a COPY.
StatementsFollowParseAndExtract ==
    /\ (pc \in {"run_parse", "run_extract"} \/ RunFailedEarly) => conn = <<>>
    /\ conn # <<>> =>
          /\ stdin.grammatical
          /\ Len(triples) = Len(stdin.patterns)
          /\ extract_schema(triples).ok
          /\ schema = extract_schema(triples).tables
    /\ \A i, j \in 1..Len(conn) :
          (IsCopy(conn[i]) /\ IsCreate(conn[j])) => j < i
    /\ \A i \in 1..Len(conn) : IsCopy(conn[i]) \/ IsCreate(conn[i])

\* A run has sent the CREATE statements of three tables and then three COPYs.
CreatesThenCopiesSent ==
    /\ pc = "run_done"
    /\ Len(SelectSeq(conn, IsCreate)) = 3
    /\ Len(SelectSeq(conn, IsCopy)) = 3

----------------------------------------------------------------------------
(* Properties of Arena *)

\* The strings passed to the calls before call n.
InsertedBefore(n) == {hist[j].node : j \in 1..(n - 1)}

\* nodes as it was when call n was made.
NodesBefore(n) == IF n = 1 THEN <<>> ELSE hist[n - 1].nodes

\* C12: a call of insert with a string not inserted before returns the number of
\* distinct strings inserted before it and appends the string to nodes; a call
\* with a string inserted before returns what the first call with it returned and
\* leaves nodes alone; nodes[id] is the string with that id, nodes holds no string
\* twice, and inverted_index maps exactly the strings of nodes to their places.
ArenaIdsCountFirstInsertions ==
    /\ \A n \in 1..Len(hist) :
          IF hist[n].node \notin InsertedBefore(n)
          THEN /\ hist[n].id = Cardinality(InsertedBefore(n))
               /\ hist[n].nodes = Append(NodesBefore(n), hist[n].node)
          ELSE /\ \E j \in 1..(n - 1) :
                     /\ hist[j].node = hist[n].node
                     /\ hist[j].node \notin InsertedBefore(j)
                     /\ hist[n].id = hist[j].id
               /\ hist[n].nodes = NodesBefore(n)
    /\ \A n \in 1..Len(hist) : arena.nodes[hist[n].id + 1] = hist[n].node
    /\ \A i, j \in 1..Len(arena.nodes) : i # j => arena.nodes[i] # arena.nodes[j]
    /\ DOMAIN arena.inverted_index = {arena.nodes[i] : i \in 1..Len(arena.nodes)}
    /\ \A i \in 1..Len(arena.nodes) : arena.inverted_index[arena.nodes[i]] = i - 1

\* A string was inserted, then another, then the first again, then a new one.
SeenStringInsertedAgain ==
    /\ Len(hist) = 4
    /\ hist[2].node # hist[1].node
    /\ hist[3].node = hist[1].node
    /\ hist[4].node \notin {hist[1].node, hist[2].node}

====
